---- MODULE Spec2Model ----
(***************************************************************************)
(* A model of osbrs' storyboard core: the Fade event (src/event/fade.rs)   *)
(* and the Sprite with its EventCollection (src/visuals/sprite.rs).         *)
(*                                                                         *)
(* Text is modelled as a sequence of one-character strings, so that a      *)
(* rendered line can be taken apart again (leading spaces, comma-separated *)
(* fields, decimal numbers) by operators that are independent of the ones  *)
(* that build it.                                                          *)
(***************************************************************************)
EXTENDS Integers, Sequences, FiniteSets, TLC

VARIABLES
    events,         \* Sprite.events: the EventCollection, four Vec<_> groups
    current_depth,  \* Sprite.current_depth
    path,           \* Sprite.path
    pos,            \* Sprite.pos (Vec2)
    layer,          \* Sprite.layer
    origin,         \* Sprite.origin
    start_time,     \* Sprite.start_time : Option<i32>
    end_time,       \* Sprite.end_time   : Option<i32>
    ev,             \* an event value the host holds outside of any sprite
    log,            \* history: the events appended so far, in call order
    op              \* history: the last operation and its arguments

vars == <<events, current_depth, path, pos, layer, origin, start_time, end_time,
          ev, log, op>>

sprite_vars == <<events, current_depth, path, pos, layer, origin, start_time, end_time>>

(***************************************************************************)
(* Bounds of the model.                                                    *)
(***************************************************************************)
MaxTime == 1        \* event times are 100 * k, k in -1 .. MaxTime
MaxValue == 1       \* event values are 0 .. MaxValue
MaxDepth == 2       \* depths handed to set_depth are 0 .. MaxDepth
MaxEvents == 3      \* appends to one sprite
MaxHeaderEvents == 2 \* appends to one sprite where sprites are built and re-layered

Times == {100 * k : k \in (0 - 1)..MaxTime}
Values == 0..MaxValue
Depths == 0..MaxDepth

(***************************************************************************)
(* Option<i32>                                                             *)
(***************************************************************************)
None == <<>>
Some(x) == <<x>>

(***************************************************************************)
(* Text: format!("{}", n) of an i32, " ".repeat(n), string literals.       *)
(***************************************************************************)
DigitChar == <<"0", "1", "2", "3", "4", "5", "6", "7", "8", "9">>

RECURSIVE Digits(_)
Digits(n) ==
    IF n < 10 THEN <<DigitChar[n + 1]>>
    ELSE Digits(n \div 10) \o <<DigitChar[(n % 10) + 1]>>

IntToStr(n) == IF n < 0 THEN <<"-">> \o Digits(0 - n) ELSE Digits(n)

RECURSIVE Repeat(_, _)
Repeat(c, n) == IF n = 0 THEN <<>> ELSE <<c>> \o Repeat(c, n - 1)

(***************************************************************************)
(* Easing: the enum lives outside the two source files.  Its id() follows   *)
(* the specification (Linear = 0, implicit for Static events) and the two   *)
(* ids the tests of fade.rs pin down: Linear 0, QuadOut 4.                  *)
(***************************************************************************)
Easings == {"Linear", "QuadOut"}

Easing_id(easing) ==
    CASE easing = "Linear" -> 0
      [] easing = "QuadOut" -> 4

(***************************************************************************)
(* Fade (src/event/fade.rs).                                               *)
(***************************************************************************)
Fade_Static(depth, time, value) ==
    [kind |-> "F", shape |-> "Static", depth |-> depth, time |-> time, value |-> value]

Fade_Dynamic(depth, easing, st, et, sv, evl) ==
    [kind |-> "F", shape |-> "Dynamic", depth |-> depth, easing |-> easing,
     start_time |-> st, end_time |-> et, start_value |-> sv, end_value |-> evl]

\* impl Into<Fade> for (i32, i32)
Fade_from_2(t) == Fade_Static(0, t[1], t[2])

\* impl Into<Fade> for (i32, i32, i32, i32)
Fade_from_4(t) == Fade_Dynamic(0, "Linear", t[1], t[2], t[3], t[4])

\* a conversion that drops the easing it is given
Fade_from_5_linear(t) == Fade_Dynamic(0, "Linear", t[2], t[3], t[4], t[5])

\* impl Into<Fade> for (Easing, i32, i32, i32, i32)
Fade_from_5(t) == Fade_Dynamic(0, t[1], t[2], t[3], t[4], t[5])

\* a Static arm that writes the time into the end-time field as well
Fade_to_line_static_end(e) ==
    IF e.shape = "Static"
    THEN Repeat(" ", e.depth) \o <<" ", "F", ",">> \o IntToStr(Easing_id("Linear"))
            \o <<",">> \o IntToStr(e.time) \o <<",">> \o IntToStr(e.time)
            \o <<",">> \o IntToStr(e.value)
    ELSE Repeat(" ", e.depth) \o <<" ", "F", ",">> \o IntToStr(Easing_id(e.easing))
            \o <<",">> \o IntToStr(e.start_time) \o <<",">> \o IntToStr(e.end_time)
            \o <<",">> \o IntToStr(e.start_value) \o <<",">> \o IntToStr(e.end_value)

\* Fade::to_line
Fade_to_line(e) ==
    IF e.shape = "Static"
    THEN Repeat(" ", e.depth) \o <<" ", "F", ",">> \o IntToStr(Easing_id("Linear"))
            \o <<",">> \o IntToStr(e.time) \o <<",", ",">> \o IntToStr(e.value)
    ELSE Repeat(" ", e.depth) \o <<" ", "F", ",">> \o IntToStr(Easing_id(e.easing))
            \o <<",">> \o IntToStr(e.start_time) \o <<",">> \o IntToStr(e.end_time)
            \o <<",">> \o IntToStr(e.start_value) \o <<",">> \o IntToStr(e.end_value)

\* a set_depth whose Dynamic arm leaves the depth alone
Fade_set_depth_static_only(e, depth) ==
    IF e.shape = "Static"
    THEN [e EXCEPT !.depth = depth]
    ELSE e

\* Fade::set_depth
Fade_set_depth(e, depth) ==
    IF e.shape = "Static"
    THEN [e EXCEPT !.depth = depth]
    ELSE [e EXCEPT !.depth = depth]

(***************************************************************************)
(* Move, Rotate and Scale live outside the two source files.  They follow  *)
(* the specification: the same two shapes and the same line grammar as     *)
(* Fade, with the command letters M, R and S; a Move value is a Vec2,      *)
(* rendered as its two components.                                         *)
(***************************************************************************)
Kinds == {"M", "F", "R", "S"}

Other_Static(kind, depth, time, value) ==
    [kind |-> kind, shape |-> "Static", depth |-> depth, time |-> time, value |-> value]

Other_Dynamic(kind, depth, easing, st, et, sv, evl) ==
    [kind |-> kind, shape |-> "Dynamic", depth |-> depth, easing |-> easing,
     start_time |-> st, end_time |-> et, start_value |-> sv, end_value |-> evl]

Other_from_2(kind, t) == Other_Static(kind, 0, t[1], t[2])

Other_from_4(kind, t) == Other_Dynamic(kind, 0, "Linear", t[1], t[2], t[3], t[4])

Other_from_5(kind, t) == Other_Dynamic(kind, 0, t[1], t[2], t[3], t[4], t[5])

ValueToStr(kind, v) ==
    IF kind = "M" THEN IntToStr(v[1]) \o <<",">> \o IntToStr(v[2]) ELSE IntToStr(v)

Other_to_line(e) ==
    IF e.shape = "Static"
    THEN Repeat(" ", e.depth) \o <<" ", e.kind, ",">> \o IntToStr(Easing_id("Linear"))
            \o <<",">> \o IntToStr(e.time) \o <<",", ",">> \o ValueToStr(e.kind, e.value)
    ELSE Repeat(" ", e.depth) \o <<" ", e.kind, ",">> \o IntToStr(Easing_id(e.easing))
            \o <<",">> \o IntToStr(e.start_time) \o <<",">> \o IntToStr(e.end_time)
            \o <<",">> \o ValueToStr(e.kind, e.start_value)
            \o <<",">> \o ValueToStr(e.kind, e.end_value)

Other_set_depth(e, depth) == [e EXCEPT !.depth = depth]

(***************************************************************************)
(* The Event trait as the Sprite uses it.  get_start_time and get_end_time *)
(* are called by the append operations but are not defined in fade.rs;     *)
(* they follow the specification (4.2).                                    *)
(***************************************************************************)
get_start_time(e) == IF e.shape = "Static" THEN e.time ELSE e.start_time

\* an end that is never before the start
get_end_time_ordered(e) ==
    IF e.shape = "Static" THEN e.time
    ELSE IF e.start_time > e.end_time THEN e.start_time ELSE e.end_time

get_end_time(e) == IF e.shape = "Static" THEN e.time ELSE e.end_time

to_line(e) == IF e.kind = "F" THEN Fade_to_line(e) ELSE Other_to_line(e)

set_depth(e, depth) ==
    IF e.kind = "F" THEN Fade_set_depth(e, depth) ELSE Other_set_depth(e, depth)

\* args.into(): a tuple of one of the three shapes, or (a 1-tuple here) an event
\* that is already of the wanted type.
into(kind, args) ==
    CASE Len(args) = 1 -> args[1]
      [] Len(args) = 2 -> IF kind = "F" THEN Fade_from_2(args) ELSE Other_from_2(kind, args)
      [] Len(args) = 4 -> IF kind = "F" THEN Fade_from_4(args) ELSE Other_from_4(kind, args)
      [] Len(args) = 5 -> IF kind = "F" THEN Fade_from_5(args) ELSE Other_from_5(kind, args)

(***************************************************************************)
(* Collaborators of the Sprite that live outside the two source files:     *)
(* Vec2 (two Numbers, integers here), and how a Number, a Layer and an     *)
(* Origin are written by format!("{}").                                    *)
(***************************************************************************)
Vec2_from(x, y) == [x |-> x, y |-> y]

Number_fmt(n) == IntToStr(n)

Layers == {"Background", "Fail", "Pass", "Foreground"}

Layer_fmt(l) ==
    CASE l = "Background" -> <<"B", "a", "c", "k", "g", "r", "o", "u", "n", "d">>
      [] l = "Fail" -> <<"F", "a", "i", "l">>
      [] l = "Pass" -> <<"P", "a", "s", "s">>
      [] l = "Foreground" -> <<"F", "o", "r", "e", "g", "r", "o", "u", "n", "d">>

Origins == {"Centre", "TopLeft"}

Origin_fmt(o) ==
    CASE o = "Centre" -> <<"C", "e", "n", "t", "r", "e">>
      [] o = "TopLeft" -> <<"T", "o", "p", "L", "e", "f", "t">>

(***************************************************************************)
(* EventCollection (src/visuals/sprite.rs).                                *)
(***************************************************************************)
EventCollection_new == [move_ |-> <<>>, fade_ |-> <<>>, rotate_ |-> <<>>, scale_ |-> <<>>]

\* .iter().map(|event| event.to_line() + "\n").collect::<Vec<String>>().join("")
RECURSIVE JoinLines(_)
JoinLines(group) ==
    IF group = <<>> THEN <<>>
    ELSE to_line(Head(group)) \o <<"\n">> \o JoinLines(Tail(group))

\* a rendering that writes the Fade group before the Move group
EventCollection_to_str_fade_first(ec) ==
    JoinLines(ec.fade_) \o JoinLines(ec.move_) \o JoinLines(ec.rotate_) \o JoinLines(ec.scale_)

EventCollection_to_str(ec) ==
    JoinLines(ec.move_) \o JoinLines(ec.fade_) \o JoinLines(ec.rotate_) \o JoinLines(ec.scale_)

(***************************************************************************)
(* Sprite construction: the twelve impl Into<Sprite>.  A String and a &str *)
(* are the same text here; String::from copies it.                         *)
(***************************************************************************)
Sprite_from_String(a) ==
    [events |-> EventCollection_new, current_depth |-> 0, path |-> a,
     pos |-> Vec2_from(320, 240), layer |-> "Background", origin |-> "Centre",
     start_time |-> None, end_time |-> None]

Sprite_from_str(a) ==
    [events |-> EventCollection_new, current_depth |-> 0, path |-> a,
     pos |-> Vec2_from(320, 240), layer |-> "Background", origin |-> "Centre",
     start_time |-> None, end_time |-> None]

Sprite_from_Origin_String(a) ==
    [events |-> EventCollection_new, current_depth |-> 0, path |-> a[2],
     pos |-> Vec2_from(320, 240), layer |-> "Background", origin |-> a[1],
     start_time |-> None, end_time |-> None]

Sprite_from_Origin_str(a) ==
    [events |-> EventCollection_new, current_depth |-> 0, path |-> a[2],
     pos |-> Vec2_from(320, 240), layer |-> "Background", origin |-> a[1],
     start_time |-> None, end_time |-> None]

Sprite_from_String_Vec2(a) ==
    [events |-> EventCollection_new, current_depth |-> 0, path |-> a[1],
     pos |-> a[2], layer |-> "Background", origin |-> "Centre",
     start_time |-> None, end_time |-> None]

Sprite_from_String_T_U(a) ==
    [events |-> EventCollection_new, current_depth |-> 0, path |-> a[1],
     pos |-> Vec2_from(a[2], a[3]), layer |-> "Background", origin |-> "Centre",
     start_time |-> None, end_time |-> None]

Sprite_from_str_Vec2(a) ==
    [events |-> EventCollection_new, current_depth |-> 0, path |-> a[1],
     pos |-> a[2], layer |-> "Background", origin |-> "Centre",
     start_time |-> None, end_time |-> None]

Sprite_from_str_T_U(a) ==
    [events |-> EventCollection_new, current_depth |-> 0, path |-> a[1],
     pos |-> Vec2_from(a[2], a[3]), layer |-> "Background", origin |-> "Centre",
     start_time |-> None, end_time |-> None]

Sprite_from_Origin_String_Vec2(a) ==
    [events |-> EventCollection_new, current_depth |-> 0, path |-> a[2],
     pos |-> a[3], layer |-> "Background", origin |-> a[1],
     start_time |-> None, end_time |-> None]

Sprite_from_Origin_String_T_U(a) ==
    [events |-> EventCollection_new, current_depth |-> 0, path |-> a[2],
     pos |-> Vec2_from(a[3], a[4]), layer |-> "Background", origin |-> a[1],
     start_time |-> None, end_time |-> None]

Sprite_from_Origin_str_Vec2(a) ==
    [events |-> EventCollection_new, current_depth |-> 0, path |-> a[2],
     pos |-> a[3], layer |-> "Background", origin |-> a[1],
     start_time |-> None, end_time |-> None]

\* a conversion that drops the origin it is given
Sprite_from_Origin_str_T_U_centre(a) ==
    [events |-> EventCollection_new, current_depth |-> 0, path |-> a[2],
     pos |-> Vec2_from(a[3], a[4]), layer |-> "Background", origin |-> "Centre",
     start_time |-> None, end_time |-> None]

Sprite_from_Origin_str_T_U(a) ==
    [events |-> EventCollection_new, current_depth |-> 0, path |-> a[2],
     pos |-> Vec2_from(a[3], a[4]), layer |-> "Background", origin |-> a[1],
     start_time |-> None, end_time |-> None]

Shapes ==
    {"String", "str", "Origin_String", "Origin_str", "String_Vec2", "String_T_U",
     "str_Vec2", "str_T_U", "Origin_String_Vec2", "Origin_String_T_U",
     "Origin_str_Vec2", "Origin_str_T_U"}

\* Sprite::new(args): args.into(), the impl chosen by the type of args
Sprite_new(shape, a) ==
    CASE shape = "String" -> Sprite_from_String(a)
      [] shape = "str" -> Sprite_from_str(a)
      [] shape = "Origin_String" -> Sprite_from_Origin_String(a)
      [] shape = "Origin_str" -> Sprite_from_Origin_str(a)
      [] shape = "String_Vec2" -> Sprite_from_String_Vec2(a)
      [] shape = "String_T_U" -> Sprite_from_String_T_U(a)
      [] shape = "str_Vec2" -> Sprite_from_str_Vec2(a)
      [] shape = "str_T_U" -> Sprite_from_str_T_U(a)
      [] shape = "Origin_String_Vec2" -> Sprite_from_Origin_String_Vec2(a)
      [] shape = "Origin_String_T_U" -> Sprite_from_Origin_String_T_U(a)
      [] shape = "Origin_str_Vec2" -> Sprite_from_Origin_str_Vec2(a)
      [] shape = "Origin_str_T_U" -> Sprite_from_Origin_str_T_U(a)

\* a header that writes the origin before the layer
Sprite_to_str_origin_first(s) ==
    <<"S", "p", "r", "i", "t", "e", ",">> \o Origin_fmt(s.origin) \o <<",">>
        \o Layer_fmt(s.layer) \o <<",", "\"">> \o s.path \o <<"\"", ",">>
        \o Number_fmt(s.pos.x) \o <<",">> \o Number_fmt(s.pos.y) \o <<"\n">>
        \o EventCollection_to_str(s.events)

\* Sprite::to_str
Sprite_to_str(s) ==
    <<"S", "p", "r", "i", "t", "e", ",">> \o Layer_fmt(s.layer) \o <<",">>
        \o Origin_fmt(s.origin) \o <<",", "\"">> \o s.path \o <<"\"", ",">>
        \o Number_fmt(s.pos.x) \o <<",">> \o Number_fmt(s.pos.y) \o <<"\n">>
        \o EventCollection_to_str(s.events)

\* The sprite the state holds.
sprite ==
    [events |-> events, current_depth |-> current_depth, path |-> path, pos |-> pos,
     layer |-> layer, origin |-> origin, start_time |-> start_time, end_time |-> end_time]

(***************************************************************************)
(* Sprite operations (src/visuals/sprite.rs).                              *)
(***************************************************************************)
\* a fold that keeps the later start
process_event_keeps_max(event_start, event_end) ==
    /\ start_time' =
          IF start_time # None
          THEN (IF start_time[1] < event_start THEN Some(event_start) ELSE start_time)
          ELSE Some(event_start)
    /\ end_time' =
          IF end_time # None
          THEN (IF end_time[1] < event_end THEN Some(event_end) ELSE end_time)
          ELSE Some(event_end)

\* a fold that first orders the pair it is given
process_event_ordered(event_start, event_end) ==
    LET lo == IF event_start < event_end THEN event_start ELSE event_end
        hi == IF event_start < event_end THEN event_end ELSE event_start
    IN  /\ start_time' =
              IF start_time # None
              THEN (IF lo < start_time[1] THEN Some(lo) ELSE start_time)
              ELSE Some(lo)
        /\ end_time' =
              IF end_time # None
              THEN (IF end_time[1] < hi THEN Some(hi) ELSE end_time)
              ELSE Some(hi)

\* Sprite::process_event
process_event(event_start, event_end) ==
    /\ start_time' =
          IF start_time # None
          THEN (IF event_start < start_time[1] THEN Some(event_start) ELSE start_time)
          ELSE Some(event_start)
    /\ end_time' =
          IF end_time # None
          THEN (IF end_time[1] < event_end THEN Some(event_end) ELSE end_time)
          ELSE Some(event_end)

\* Sprite::move_
move_(args) ==
    LET event == into("M", args)
        stamped == set_depth(event, current_depth)
    IN  /\ Len(log) < MaxEvents
        /\ process_event(get_start_time(event), get_end_time(event))
        /\ events' = [events EXCEPT !.move_ = Append(@, stamped)]
        /\ log' = Append(log, stamped)
        /\ op' = [name |-> "move_", arg |-> event]
        /\ UNCHANGED <<current_depth, path, pos, layer, origin, ev>>

\* an append that stores the event with the depth it came with
fade_unstamped(args) ==
    LET event == into("F", args)
    IN  /\ Len(log) < MaxEvents
        /\ process_event(get_start_time(event), get_end_time(event))
        /\ events' = [events EXCEPT !.fade_ = Append(@, event)]
        /\ log' = Append(log, event)
        /\ op' = [name |-> "fade_", arg |-> event]
        /\ UNCHANGED <<current_depth, path, pos, layer, origin, ev>>

\* Sprite::fade_
fade_(args) ==
    LET event == into("F", args)
        stamped == set_depth(event, current_depth)
    IN  /\ Len(log) < MaxEvents
        /\ process_event(get_start_time(event), get_end_time(event))
        /\ events' = [events EXCEPT !.fade_ = Append(@, stamped)]
        /\ log' = Append(log, stamped)
        /\ op' = [name |-> "fade_", arg |-> event]
        /\ UNCHANGED <<current_depth, path, pos, layer, origin, ev>>

\* Sprite::rotate_
rotate_(args) ==
    LET event == into("R", args)
        stamped == set_depth(event, current_depth)
    IN  /\ Len(log) < MaxEvents
        /\ process_event(get_start_time(event), get_end_time(event))
        /\ events' = [events EXCEPT !.rotate_ = Append(@, stamped)]
        /\ log' = Append(log, stamped)
        /\ op' = [name |-> "rotate_", arg |-> event]
        /\ UNCHANGED <<current_depth, path, pos, layer, origin, ev>>

\* an append that pushes the Scale event onto the Rotate group
scale_into_rotate(args) ==
    LET event == into("S", args)
        stamped == set_depth(event, current_depth)
    IN  /\ Len(log) < MaxEvents
        /\ process_event(get_start_time(event), get_end_time(event))
        /\ events' = [events EXCEPT !.rotate_ = Append(@, stamped)]
        /\ log' = Append(log, stamped)
        /\ op' = [name |-> "scale_", arg |-> event]
        /\ UNCHANGED <<current_depth, path, pos, layer, origin, ev>>

\* Sprite::scale_
scale_(args) ==
    LET event == into("S", args)
        stamped == set_depth(event, current_depth)
    IN  /\ Len(log) < MaxEvents
        /\ process_event(get_start_time(event), get_end_time(event))
        /\ events' = [events EXCEPT !.scale_ = Append(@, stamped)]
        /\ log' = Append(log, stamped)
        /\ op' = [name |-> "scale_", arg |-> event]
        /\ UNCHANGED <<current_depth, path, pos, layer, origin, ev>>

\* Sprite::set_layer
set_layer(l) ==
    /\ layer' = l
    /\ op' = [name |-> "set_layer", arg |-> l]
    /\ UNCHANGED <<events, current_depth, path, pos, origin, start_time, end_time, ev, log>>

\* let sprite = Sprite::new(args): the host replaces its sprite by a new one
New(shape, a) ==
    LET s == Sprite_new(shape, a)
    IN  /\ events' = s.events
        /\ current_depth' = s.current_depth
        /\ path' = s.path
        /\ pos' = s.pos
        /\ layer' = s.layer
        /\ origin' = s.origin
        /\ start_time' = s.start_time
        /\ end_time' = s.end_time
        /\ log' = <<>>
        /\ op' = [name |-> "new", arg |-> <<shape, a>>]
        /\ UNCHANGED ev

\* let event: K = args.into(): the host builds an event outside of any sprite
Convert(kind, args) ==
    /\ ev' = into(kind, args)
    /\ op' = [name |-> "into", arg |-> args]
    /\ UNCHANGED <<sprite_vars, log>>

\* event.set_depth(d) on the host's event
SetDepth(d) ==
    /\ ev' = set_depth(ev, d)
    /\ op' = [name |-> "set_depth", arg |-> d]
    /\ UNCHANGED <<sprite_vars, log>>

(***************************************************************************)
(* Inputs.                                                                 *)
(***************************************************************************)
PathA == <<"r", "e", "s", "/", "s", "p", "r", "i", "t", "e", ".", "p", "n", "g">>
PathB == <<"b", "g", ".", "j", "p", "g">>
Paths == {PathA, PathB}

\* positions given to a constructor, as (x, y)
Positions == {<<320, 240>>, <<0 - 107, 480>>}

ConstructArgs(shape) ==
    CASE shape \in {"String", "str"} -> Paths
      [] shape \in {"Origin_String", "Origin_str"} ->
            {<<o, p>> : o \in Origins, p \in Paths}
      [] shape \in {"String_Vec2", "str_Vec2"} ->
            {<<p, Vec2_from(xy[1], xy[2])>> : p \in Paths, xy \in Positions}
      [] shape \in {"String_T_U", "str_T_U"} ->
            {<<p, xy[1], xy[2]>> : p \in Paths, xy \in Positions}
      [] shape \in {"Origin_String_Vec2", "Origin_str_Vec2"} ->
            {<<o, p, Vec2_from(xy[1], xy[2])>> : o \in Origins, p \in Paths, xy \in Positions}
      [] shape \in {"Origin_String_T_U", "Origin_str_T_U"} ->
            {<<o, p, xy[1], xy[2]>> : o \in Origins, p \in Paths, xy \in Positions}

\* the values of one kind: a Vec2 (as a pair) for Move, a number for the others
KindValues(kind) == IF kind = "M" THEN {<<320 * v, 240 * v>> : v \in Values} ELSE Values

\* every tuple of the three shapes over Times, the values and the easings
EventArgs(kind) ==
    {<<t, v>> : t \in Times, v \in KindValues(kind)}
    \cup {<<st, et, sv, evl>> : st \in Times, et \in Times,
                                sv \in KindValues(kind), evl \in KindValues(kind)}
    \cup {<<ea, st, et, sv, evl>> : ea \in Easings, st \in Times, et \in Times,
                                    sv \in KindValues(kind), evl \in KindValues(kind)}

\* what the sprite specifications append, over two times and fixed values: a
\* Static event at each time, a Dynamic event for each pair of different times
\* (forward and reversed), an eased Dynamic event of zero length, and events
\* built beforehand and given a depth of their own
AppendTimes == {0, 100}
AppendValue(kind, i) == IF kind = "M" THEN <<320 * i, 240 * i>> ELSE i

AppendTuples(kind) ==
    {<<t, AppendValue(kind, 1)>> : t \in AppendTimes}
    \cup {<<t[1], t[2], AppendValue(kind, 0), AppendValue(kind, 1)>> :
             t \in {u \in AppendTimes \X AppendTimes : u[1] # u[2]}}
    \cup {<<"QuadOut", 100, 100, AppendValue(kind, 1), AppendValue(kind, 0)>>}

AppendArgs(kind) ==
    AppendTuples(kind)
    \cup {<<set_depth(into(kind, a), MaxDepth)>> :
             a \in {<<0, AppendValue(kind, 1)>>,
                    <<100, 0, AppendValue(kind, 0), AppendValue(kind, 1)>>}}

(***************************************************************************)
(* Spec: one sprite, built from its path, and its appends.                 *)
(***************************************************************************)
DefaultEvent == Fade_from_2(<<0, 1>>)

InitSprite(shape, a) ==
    LET s == Sprite_new(shape, a)
    IN  /\ events = s.events
        /\ current_depth = s.current_depth
        /\ path = s.path
        /\ pos = s.pos
        /\ layer = s.layer
        /\ origin = s.origin
        /\ start_time = s.start_time
        /\ end_time = s.end_time
        /\ log = <<>>

Init ==
    /\ InitSprite("str", PathA)
    /\ op = [name |-> "new", arg |-> <<"str", PathA>>]
    /\ ev = DefaultEvent

Next ==
    \/ \E a \in AppendArgs("M") : move_(a)
    \/ \E a \in AppendArgs("F") : fade_(a)
    \/ \E a \in AppendArgs("R") : rotate_(a)
    \/ \E a \in AppendArgs("S") : scale_(a)

Spec == Init /\ [][Next]_vars

(***************************************************************************)
(* SpecNew: sprites built in every shape, given a layer, and a few appends.*)
(***************************************************************************)
HeaderArgs(kind) ==
    {<<0, AppendValue(kind, 1)>>, <<100, 0, AppendValue(kind, 0), AppendValue(kind, 1)>>}

InitNew ==
    /\ \E shape \in Shapes : \E a \in ConstructArgs(shape) :
          /\ InitSprite(shape, a)
          /\ op = [name |-> "new", arg |-> <<shape, a>>]
    /\ ev = DefaultEvent

NextNew ==
    \/ \E shape \in Shapes : \E a \in ConstructArgs(shape) : New(shape, a)
    \/ \E l \in Layers : set_layer(l)
    \/ \E a \in HeaderArgs("M") : Len(log) < MaxHeaderEvents /\ move_(a)
    \/ \E a \in HeaderArgs("F") : Len(log) < MaxHeaderEvents /\ fade_(a)
    \/ \E a \in HeaderArgs("R") : Len(log) < MaxHeaderEvents /\ rotate_(a)
    \/ \E a \in HeaderArgs("S") : Len(log) < MaxHeaderEvents /\ scale_(a)

SpecNew == InitNew /\ [][NextNew]_vars

(***************************************************************************)
(* SpecEvent: events built and re-indented outside of any sprite.          *)
(***************************************************************************)
InitEvent ==
    /\ InitSprite("str", PathA)
    /\ \E k \in Kinds : \E a \in EventArgs(k) :
          /\ ev = into(k, a)
          /\ op = [name |-> "into", arg |-> a]

NextEvent ==
    \/ \E k \in Kinds : \E a \in AppendTuples(k) : Convert(k, a)
    \/ \E d \in Depths : SetDepth(d)

SpecEvent == InitEvent /\ [][NextEvent]_vars

(***************************************************************************)
(* Reading text back: operators independent of the ones that write it.     *)
(***************************************************************************)
SetMin(S) == CHOOSE x \in S : \A y \in S : x <= y
SetMax(S) == CHOOSE x \in S : \A y \in S : y <= x

\* the pieces of text between the occurrences of c (one more than occurrences)
RECURSIVE SplitOn(_, _)
SplitOn(text, c) ==
    IF \E i \in 1..Len(text) : text[i] = c
    THEN LET i == SetMin({j \in 1..Len(text) : text[j] = c})
         IN  <<SubSeq(text, 1, i - 1)>> \o SplitOn(SubSeq(text, i + 1, Len(text)), c)
    ELSE <<text>>

\* the number of characters c the text starts with
RECURSIVE LeadingCount(_, _)
LeadingCount(text, c) ==
    IF text # <<>> /\ Head(text) = c THEN 1 + LeadingCount(Tail(text), c) ELSE 0

DigitValue(c) == SetMin({d \in 0..9 : DigitChar[d + 1] = c})
IsDigit(c) == \E d \in 0..9 : DigitChar[d + 1] = c

RECURSIVE ParseNat(_)
ParseNat(text) ==
    IF Len(text) = 1 THEN DigitValue(text[1])
    ELSE 10 * ParseNat(SubSeq(text, 1, Len(text) - 1)) + DigitValue(text[Len(text)])

\* a decimal number as Rust writes an i32: digits, a "-" before a negative one,
\* no sign otherwise and no leading zero
IsNumber(text) ==
    LET body == IF text # <<>> /\ Head(text) = "-" THEN Tail(text) ELSE text
    IN  /\ body # <<>>
        /\ \A i \in 1..Len(body) : IsDigit(body[i])
        /\ Len(body) > 1 => body[1] # "0"
        /\ (text # <<>> /\ Head(text) = "-") => body # <<"0">>

ParseInt(text) ==
    IF Head(text) = "-" THEN 0 - ParseNat(Tail(text)) ELSE ParseNat(text)

(***************************************************************************)
(* C1: before any append start_time() and end_time() are None; after       *)
(* N >= 1 appends start_time() is Some(the minimum of the appended         *)
(* events' start times) and end_time() is Some(the maximum of their end    *)
(* times); across an append start_time() never increases and end_time()    *)
(* never decreases.                                                        *)
(***************************************************************************)
C1_Fold ==
    IF log = <<>>
    THEN start_time = None /\ end_time = None
    ELSE /\ start_time = Some(SetMin({get_start_time(log[i]) : i \in 1..Len(log)}))
         /\ end_time = Some(SetMax({get_end_time(log[i]) : i \in 1..Len(log)}))

C1_Widens ==
    (Len(log') = Len(log) + 1 /\ log # <<>>) =>
        /\ start_time'[1] <= start_time[1]
        /\ end_time'[1] >= end_time[1]

LoggedLines(kind) ==
    LET OfKind(e) == e.kind = kind
        es == SelectSeq(log, OfKind)
    IN  [i \in 1..Len(es) |-> to_line(es[i])]

\* the command letter of a line: its first character after the leading spaces
CommandLetter(line) == line[LeadingCount(line, " ") + 1]

KindRank(letter) ==
    CASE letter = "M" -> 1 [] letter = "F" -> 2 [] letter = "R" -> 3 [] letter = "S" -> 4
      [] OTHER -> 0

C2_Grouped ==
    LET text == EventCollection_to_str(events)
        pieces == SplitOn(text, "\n")
        n == Len(pieces) - 1
    IN  /\ n = Len(log)
        /\ pieces[n + 1] = <<>>
        /\ (log = <<>>) => text = <<>>
        /\ \A i \in 1..n : pieces[i] # <<>>
        /\ SubSeq(pieces, 1, n) =
              LoggedLines("M") \o LoggedLines("F") \o LoggedLines("R") \o LoggedLines("S")
        /\ \A i \in 1..n : KindRank(CommandLetter(pieces[i])) >= 1
        /\ \A i \in 1..n : \A j \in i..n :
              KindRank(CommandLetter(pieces[i])) <= KindRank(CommandLetter(pieces[j]))

\* Fade, Move and Fade again: the Move line comes first, the two different
\* Fade lines follow in append order, the Rotate group is empty
C2_Witness ==
    /\ Len(log) = 3
    /\ log[1].kind = "F" /\ log[2].kind = "M" /\ log[3].kind = "F"
    /\ log[1] # log[3]
    /\ SplitOn(EventCollection_to_str(events), "\n") =
          <<to_line(log[2]), to_line(log[1]), to_line(log[3]), <<>> >>

(***************************************************************************)
(* C3: set_depth(d) followed by to_line() gives a line with exactly d      *)
(* extra spaces before the one separator space and the command token       *)
(* (d + 1 leading spaces), the rest of the line unchanged; the same        *)
(* set_depth(d) again leaves to_line() unchanged, and the last set_depth   *)
(* wins (the step holds from every depth the event had before).            *)
(***************************************************************************)
DropFirst(text, n) == SubSeq(text, n + 1, Len(text))

C3_Step ==
    (op'.name = "set_depth") =>
        LET d == op'.arg
            before == to_line(ev)
            after == to_line(ev')
        IN  /\ LeadingCount(after, " ") = d + 1
            /\ KindRank(CommandLetter(after)) >= 1
            /\ DropFirst(after, d + 1) = DropFirst(before, LeadingCount(before, " "))
            /\ to_line(set_depth(ev', d)) = after

C3_Depth == [][C3_Step]_vars

\* the event of tests::to_line_static after set_depth(2)
C3_Witness ==
    /\ op.name = "set_depth" /\ op.arg = 2
    /\ ev = Fade_Static(2, 0, 1)
    /\ to_line(ev) = <<" ", " ", " ", "F", ",", "0", ",", "0", ",", ",", "1">>

(***************************************************************************)
(* C4: a Fade built from (time, value) is a Static event of depth 0 and    *)
(* its to_line() is exactly " F,0,<time>,,<value>": the easing field is    *)
(* the Linear id 0 and the end-time field is empty.                        *)
(***************************************************************************)
C4_Static ==
    (op.name = "into" /\ Len(op.arg) = 2 /\ ev.kind = "F") =>
        LET f == SplitOn(to_line(ev), ",")
        IN  /\ ev.shape = "Static"
            /\ ev.depth = 0
            /\ Len(f) = 5
            /\ f[1] = <<" ", "F">>
            /\ f[2] = <<"0">>
            /\ IsNumber(f[3]) /\ ParseInt(f[3]) = op.arg[1]
            /\ f[4] = <<>>
            /\ IsNumber(f[5]) /\ ParseInt(f[5]) = op.arg[2]

\* a Fade built from a negative time
C4_Witness ==
    /\ op.name = "into" /\ op.arg = <<0 - 100, 1>> /\ ev.kind = "F"
    /\ to_line(ev) = <<" ", "F", ",", "0", ",", "-", "1", "0", "0", ",", ",", "1">>

(***************************************************************************)
(* C5: a Fade built from (start_time, end_time, start_value, end_value) is *)
(* a Dynamic event of depth 0 with Linear easing, written                  *)
(* " F,0,<start_time>,<end_time>,<start_value>,<end_value>"; built from    *)
(* (easing, start_time, end_time, start_value, end_value) it is written    *)
(* with the same fields in the same order and the easing's id in the       *)
(* easing field (QuadOut is written 4).                                    *)
(***************************************************************************)
C5_Fields(f, easing_field, t) ==
    /\ Len(f) = 6
    /\ f[1] = <<" ", "F">>
    /\ f[2] = easing_field
    /\ IsNumber(f[3]) /\ ParseInt(f[3]) = t[1]
    /\ IsNumber(f[4]) /\ ParseInt(f[4]) = t[2]
    /\ IsNumber(f[5]) /\ ParseInt(f[5]) = t[3]
    /\ IsNumber(f[6]) /\ ParseInt(f[6]) = t[4]

C5_Dynamic ==
    (op.name = "into" /\ Len(op.arg) \in {4, 5} /\ ev.kind = "F") =>
        LET f == SplitOn(to_line(ev), ",")
        IN  /\ ev.shape = "Dynamic"
            /\ ev.depth = 0
            /\ Len(op.arg) = 4 =>
                  /\ ev.easing = "Linear"
                  /\ C5_Fields(f, <<"0">>, op.arg)
            /\ Len(op.arg) = 5 =>
                  /\ ev.easing = op.arg[1]
                  /\ C5_Fields(f, IntToStr(Easing_id(op.arg[1])), Tail(op.arg))
                  /\ op.arg[1] = "QuadOut" => f[2] = <<"4">>
                  /\ op.arg[1] = "Linear" => f[2] = <<"0">>

\* the second event of tests::to_line_dynamic, its end time 100 for 1000
C5_Witness ==
    /\ op.name = "into" /\ op.arg = <<"QuadOut", 0, 100, 0, 1>> /\ ev.kind = "F"
    /\ to_line(ev) = <<" ", "F", ",", "4", ",", "0", ",", "1", "0", "0", ",", "0", ",", "1">>

(***************************************************************************)
(* C7: for a Static event get_start_time() and get_end_time() both return  *)
(* its one time; for a Dynamic event they return start_time and end_time   *)
(* as given, with no swap or clamping, also when start_time > end_time;    *)
(* set_depth does not change what either returns.                          *)
(***************************************************************************)
C7_AsBuilt ==
    (op.name = "into") =>
        /\ Len(op.arg) = 2 =>
              /\ ev.shape = "Static"
              /\ get_start_time(ev) = op.arg[1]
              /\ get_end_time(ev) = op.arg[1]
        /\ Len(op.arg) = 4 =>
              /\ ev.shape = "Dynamic"
              /\ get_start_time(ev) = op.arg[1]
              /\ get_end_time(ev) = op.arg[2]
        /\ Len(op.arg) = 5 =>
              /\ ev.shape = "Dynamic"
              /\ get_start_time(ev) = op.arg[2]
              /\ get_end_time(ev) = op.arg[3]

C7_DepthKeeps ==
    (op'.name = "set_depth") =>
        /\ get_start_time(ev') = get_start_time(ev)
        /\ get_end_time(ev') = get_end_time(ev)

C7_Times == []C7_AsBuilt /\ [][C7_DepthKeeps]_vars

\* a Dynamic Fade that ends before it starts, after a set_depth
C7_Witness ==
    /\ op.name = "set_depth" /\ op.arg = 2
    /\ ev.kind = "F" /\ ev.shape = "Dynamic" /\ ev.depth = 2
    /\ ev.start_time = 100 /\ ev.end_time = 0 - 100
    /\ get_start_time(ev) = 100 /\ get_end_time(ev) = 0 - 100

(***************************************************************************)
(* C6: a Sprite is written as exactly one header line                      *)
(* Sprite,<Layer>,<Origin>,"<path>",<x>,<y> (this field order, commas      *)
(* without spaces, the path in double quotes) ended by a line terminator,  *)
(* followed by the EventCollection text; a Sprite without events is its    *)
(* header line alone; the header shows the layer last given to set_layer.  *)
(***************************************************************************)
FirstIndex(text, c) == SetMin({i \in 1..Len(text) : text[i] = c})

HeaderOf(s) ==
    LET text == Sprite_to_str(s) IN SubSeq(text, 1, FirstIndex(text, "\n") - 1)

C6_Rendered ==
    LET text == Sprite_to_str(sprite)
        header == HeaderOf(sprite)
        rest == DropFirst(text, Len(header) + 1)
        f == SplitOn(header, ",")
    IN  /\ \E i \in 1..Len(text) : text[i] = "\n"
        /\ Len(f) = 6
        /\ f[1] = <<"S", "p", "r", "i", "t", "e">>
        /\ f[2] = Layer_fmt(layer)
        /\ f[3] = Origin_fmt(origin)
        /\ f[4] = <<"\"">> \o path \o <<"\"">>
        /\ IsNumber(f[5]) /\ ParseInt(f[5]) = pos.x
        /\ IsNumber(f[6]) /\ ParseInt(f[6]) = pos.y
        /\ \A i \in 1..Len(header) : header[i] # " "
        /\ rest = EventCollection_to_str(events)
        /\ (log = <<>>) => text = header \o <<"\n">>
        /\ (log # <<>>) => Len(SplitOn(rest, "\n")) = Len(log) + 1
        /\ (op.name = "set_layer") => f[2] = Layer_fmt(op.arg)
        /\ (op.name = "new") => f[2] = Layer_fmt("Background")

\* an append changes no header: the layer written stays the one last set
C6_LayerStays ==
    (op'.name \in {"move_", "fade_", "rotate_", "scale_"}) =>
        HeaderOf(sprite') = HeaderOf(sprite)

C6_Text == []C6_Rendered /\ [][C6_LayerStays]_vars

\* Sprite,Pass,TopLeft,"bg.jpg",-107,480 with the layer set to Pass and a Fade
\* and then a Move appended
C6_Witness ==
    /\ Len(log) = 2 /\ log[1].kind = "F" /\ log[2].kind = "M"
    /\ Sprite_to_str(sprite) =
          <<"S", "p", "r", "i", "t", "e", ",", "P", "a", "s", "s", ",",
            "T", "o", "p", "L", "e", "f", "t", ",",
            "\"", "b", "g", ".", "j", "p", "g", "\"", ",",
            "-", "1", "0", "7", ",", "4", "8", "0", "\n">>
          \o to_line(log[2]) \o <<"\n">> \o to_line(log[1]) \o <<"\n">>

(***************************************************************************)
(* C8: every construction shape gives the same canonical initial state:    *)
(* the given path, layer Background, origin Centre unless one is given,    *)
(* position (320, 240) unless one is given, depth 0, four empty groups,    *)
(* start_time and end_time None; two shapes given the same path, origin    *)
(* and position give identical sprites.                                    *)
(***************************************************************************)
OriginShapes ==
    {"Origin_String", "Origin_str", "Origin_String_Vec2", "Origin_String_T_U",
     "Origin_str_Vec2", "Origin_str_T_U"}
Vec2Shapes == {"String_Vec2", "str_Vec2", "Origin_String_Vec2", "Origin_str_Vec2"}
NumberShapes == {"String_T_U", "str_T_U", "Origin_String_T_U", "Origin_str_T_U"}

\* what a constructor call gives: <<origin or "", path, position or <<>> >>
Given(shape, a) ==
    LET rest == IF shape \in {"String", "str"} THEN <<a>>
                ELSE IF shape \in OriginShapes THEN Tail(a) ELSE a
    IN  << IF shape \in OriginShapes THEN a[1] ELSE "",
           rest[1],
           IF shape \in Vec2Shapes THEN <<rest[2].x, rest[2].y>>
           ELSE IF shape \in NumberShapes THEN <<rest[2], rest[3]>> ELSE <<>> >>

\* the same call with every default written out
Canonical(shape, a) ==
    LET g == Given(shape, a)
    IN  << IF g[1] = "" THEN "Centre" ELSE g[1], g[2], IF g[3] = <<>> THEN <<320, 240>> ELSE g[3] >>

C8_Canonical ==
    (op.name = "new") =>
        LET c == Canonical(op.arg[1], op.arg[2])
        IN  /\ path = c[2]
            /\ layer = "Background"
            /\ origin = c[1]
            /\ <<pos.x, pos.y>> = c[3]
            /\ DOMAIN pos = {"x", "y"}
            /\ current_depth = 0
            /\ events.move_ = <<>> /\ events.fade_ = <<>>
            /\ events.rotate_ = <<>> /\ events.scale_ = <<>>
            /\ DOMAIN events = {"move_", "fade_", "rotate_", "scale_"}
            /\ start_time = None /\ end_time = None
            /\ \A shape \in Shapes : \A a \in ConstructArgs(shape) :
                  Canonical(shape, a) = c => Sprite_new(shape, a) = sprite

\* (Origin, &str, T, U) with nothing left to default
C8_Witness ==
    /\ op.name = "new" /\ op.arg = <<"Origin_str_T_U", <<"TopLeft", PathB, 0 - 107, 480>> >>
    /\ origin = "TopLeft" /\ path = PathB /\ pos = Vec2_from(0 - 107, 480)
    /\ layer = "Background"

(***************************************************************************)
(* C9: an append of a Dynamic event whose start_time > end_time is         *)
(* accepted: the event is stored and written as given, and the window      *)
(* fold takes its start field as the start and its end field as the end    *)
(* (not the ordered pair), so that as the first append on a fresh Sprite   *)
(* it gives start_time() = Some(start_time), end_time() = Some(end_time).  *)
(***************************************************************************)
Appends == {"move_", "fade_", "rotate_", "scale_"}

GroupOf(name) ==
    CASE name = "move_" -> events.move_
      [] name = "fade_" -> events.fade_
      [] name = "rotate_" -> events.rotate_
      [] name = "scale_" -> events.scale_

Last(seq) == seq[Len(seq)]

\* a Dynamic event of each kind that ends before it starts
Reversed(kind) == <<100, 0, AppendValue(kind, 0), AppendValue(kind, 1)>>

C9_Accepted ==
    /\ (Len(log) < MaxEvents) =>
          /\ ENABLED move_(Reversed("M"))
          /\ ENABLED fade_(Reversed("F"))
          /\ ENABLED rotate_(Reversed("R"))
          /\ ENABLED scale_(Reversed("S"))
    /\ (op.name \in Appends /\ op.arg.shape = "Dynamic"
            /\ op.arg.start_time > op.arg.end_time) =>
          LET stored == Last(GroupOf(op.name))
              f == SplitOn(to_line(stored), ",")
              lines == SplitOn(Sprite_to_str(sprite), "\n")
          IN  /\ stored.shape = "Dynamic"
              /\ stored.start_time = op.arg.start_time
              /\ stored.end_time = op.arg.end_time
              /\ ParseInt(f[3]) = op.arg.start_time
              /\ ParseInt(f[4]) = op.arg.end_time
              /\ \E i \in 2..Len(lines) : lines[i] = to_line(stored)
              /\ start_time # None /\ start_time[1] <= op.arg.start_time
              /\ end_time # None /\ end_time[1] >= op.arg.end_time
              /\ Len(log) = 1 =>
                    /\ start_time = Some(op.arg.start_time)
                    /\ end_time = Some(op.arg.end_time)

\* the first append is a Fade from 100 to 0: the window starts after it ends
C9_Witness ==
    /\ Len(log) = 1 /\ op.name = "fade_"
    /\ op.arg.shape = "Dynamic" /\ op.arg.start_time = 100 /\ op.arg.end_time = 0
    /\ events.fade_ = <<op.arg>>
    /\ start_time = Some(100) /\ end_time = Some(0)

(***************************************************************************)
(* C10: an append folds the event's (start, end) into the window, stamps   *)
(* the event with the sprite's current depth and stores it; so every       *)
(* stored event has the depth the sprite had when it was appended,         *)
(* whatever depth it was built with, and a later append changes the depth  *)
(* of no event stored before.                                              *)
(***************************************************************************)
GroupOfNext(name) ==
    CASE name = "move_" -> events'.move_
      [] name = "fade_" -> events'.fade_
      [] name = "rotate_" -> events'.rotate_
      [] name = "scale_" -> events'.scale_

C10_Step ==
    (op'.name \in Appends /\ Len(log') = Len(log) + 1) =>
        LET given == op'.arg
            before == GroupOf(op'.name)
            after == GroupOfNext(op'.name)
            stored == Last(after)
            es == get_start_time(given)
            ee == get_end_time(given)
        IN  /\ Len(after) = Len(before) + 1
            /\ stored.depth = current_depth
            /\ [stored EXCEPT !.depth = given.depth] = given
            /\ start_time' = Some(IF start_time = None \/ es < start_time[1]
                                  THEN es ELSE start_time[1])
            /\ end_time' = Some(IF end_time = None \/ ee > end_time[1]
                                THEN ee ELSE end_time[1])
            /\ \A name \in Appends :
                  SubSeq(GroupOfNext(name), 1, Len(GroupOf(name))) = GroupOf(name)

C10_AllStamped ==
    \A name \in Appends : \A i \in 1..Len(GroupOf(name)) :
        GroupOf(name)[i].depth = current_depth

C10_Stamped == []C10_AllStamped /\ [][C10_Step]_vars

\* a Fade built with a depth of its own is stored, after another event, with the
\* sprite's depth
C10_Witness ==
    /\ Len(log) >= 2 /\ op.name = "fade_"
    /\ op.arg.depth = MaxDepth /\ op.arg.depth # current_depth
    /\ Last(events.fade_).depth = current_depth
    /\ [Last(events.fade_) EXCEPT !.depth = op.arg.depth] = op.arg

(***************************************************************************)
(* C11: an append of kind K adds exactly one event at the end of group K   *)
(* and leaves the contents and order of the other three groups, the        *)
(* earlier events of group K, and the sprite's path, position, layer,      *)
(* origin and current depth unchanged; set_layer changes only the layer    *)
(* and leaves the event groups and the time window unchanged.              *)
(***************************************************************************)
C11_Append ==
    (op'.name \in Appends /\ Len(log') = Len(log) + 1) =>
        LET before == GroupOf(op'.name)
            after == GroupOfNext(op'.name)
        IN  /\ Len(after) = Len(before) + 1
            /\ SubSeq(after, 1, Len(before)) = before
            /\ [Last(after) EXCEPT !.depth = op'.arg.depth] = op'.arg
            /\ \A name \in Appends \ {op'.name} : GroupOfNext(name) = GroupOf(name)
            /\ DOMAIN events' = DOMAIN events
            /\ path' = path /\ pos' = pos /\ layer' = layer
            /\ origin' = origin /\ current_depth' = current_depth

C11_SetLayer ==
    (op'.name = "set_layer" /\ op' # op) =>
        /\ layer' = op'.arg
        /\ events' = events
        /\ start_time' = start_time /\ end_time' = end_time
        /\ path' = path /\ pos' = pos
        /\ origin' = origin /\ current_depth' = current_depth

C11_Frame == [][C11_Append /\ C11_SetLayer]_vars

\* a second Scale event appended behind a different first one, on a sprite whose
\* layer (given by set_layer), origin and position are not the defaults
C11_Witness ==
    /\ op.name = "scale_"
    /\ Len(events.scale_) = 2 /\ events.scale_[1] # events.scale_[2]
    /\ events.rotate_ = <<>> /\ events.move_ = <<>> /\ events.fade_ = <<>>
    /\ layer = "Pass" /\ origin = "TopLeft" /\ pos = Vec2_from(0 - 107, 480)

====
